---- MODULE Spec2Model ----
(***************************************************************************)
(* A model of GlobeMap (src/src/GlobeMap.js): the highlight store, the     *)
(* renderer and the navigation engine of one globe instance, with the      *)
(* d3 transition schedule of the document root that carries its tweens.    *)
(*                                                                         *)
(* JavaScript runs every handler to completion, so every public method is  *)
(* one action; the animation callbacks of a transition (its start and its  *)
(* frames) are actions of their own that interleave with the methods.      *)
(***************************************************************************)
EXTENDS Integers, Sequences, FiniteSets, TLC

(***************************************************************************)
(* Strings and String.prototype.toLowerCase.  A name is one of a few       *)
(* spellings; toLowerCase maps every spelling to its lowercase spelling    *)
(* and is not the identity.                                                *)
(***************************************************************************)
UpperToLower ==
    [s \in {"Germany", "GERMANY", "France", "FRANCE", "Australia", "Atlantis",
            "Europe"} |->
        CASE s \in {"Germany", "GERMANY"} -> "germany"
          [] s \in {"France", "FRANCE"}   -> "france"
          [] s = "Australia"              -> "australia"
          [] s = "Atlantis"               -> "atlantis"
          [] s = "Europe"                 -> "europe"]

toLowerCase(s) == IF s \in DOMAIN UpperToLower THEN UpperToLower[s] ELSE s

(***************************************************************************)
(* The dataset: the country features of the world atlas, in dataset order, *)
(* each with properties {id, name}; ids and lowercase names are unique.    *)
(* A feature is referred to by its index; 0 is what Array.find returns     *)
(* when nothing matches (undefined) and -1 stands for null.  Of a          *)
(* feature's geometry the model keeps what the library calls return for    *)
(* it: centroid is geoCentroid(feature) in degrees, and fit is the scale   *)
(* of an orthographic projection fitted to the feature, in hundredths of   *)
(* the scale fitted to the whole sphere in the same viewport.              *)
(***************************************************************************)
countriesGeoJson ==
    << [id |-> "DEU", name |-> "Germany", centroid |-> << 10, 51 >>, fit |-> 2000],
       [id |-> "FRA", name |-> "France", centroid |-> << 2, 46 >>, fit |-> 900],
       [id |-> "AUS", name |-> "Australia", centroid |-> << 134, 0 - 25 >>,
        fit |-> 400] >>

Undefined == 0
Null == 0 - 1

(***************************************************************************)
(* The region table: region name -> ordered list of member country names.  *)
(* "kosovo" is a member name the dataset has no country for.               *)
(***************************************************************************)
REGION_COUNTRY_MAP ==
    [r \in {"europe", "western europe"} |->
        IF r = "europe" THEN << "germany", "france", "kosovo" >>
                        ELSE << "france", "germany" >>]

RegionDefined(name) == name \in DOMAIN REGION_COUNTRY_MAP

\* The names and colors the operations are called with.
CountryNames == {"germany", "Germany", "GERMANY", "france", "FRANCE",
                 "kosovo", "Atlantis"}
RegionNames == {"europe", "western europe", "Europe"}
Names == CountryNames \cup RegionNames
NoColor == "undefined"
Colors == {NoColor, "#F00"}
defaultHighlightColor == "#F90"

VARIABLES
    canvasContext,          \* "undefined" until init() sets up the canvas, then "2d"
    settings,               \* the merged settings render reads
    highlightedCountries,   \* sequence of highlight entries, in insertion order
    canvas,                 \* the draw passes of the most recent render
    holderBoundingBox,      \* [width, height] of the holder, read at new and resize
    baseProjectionScale,    \* scale fitting the sphere in the box; 0 before init
    projection,             \* [rotate |-> <<lambda, phi>>, scale |-> k]
    zoom,                   \* this.zoom, in hundredths (100 is the factor 1)
    zoomedCountry,          \* this.zoomedCountry, "undefined" until a country is zoomed on
    schedules,              \* the transitions of the document root, oldest first
    ended,                  \* the transition whose last frame the latest step applied
    calls,                  \* how many navigation calls have been made
    last                    \* the most recent public call and what it did

hlVars == << highlightedCountries >>
navVars == << holderBoundingBox, baseProjectionScale, projection, zoom,
              zoomedCountry, schedules, ended, calls >>
vars == << canvasContext, settings, highlightedCountries, canvas,
           holderBoundingBox, baseProjectionScale, projection, zoom,
           zoomedCountry, schedules, ended, calls, last >>

(***************************************************************************)
(* What a handler has done so far: the fields of the instance it works on, *)
(* the draw passes on the canvas, the transitions of the document root,    *)
(* the number of render() invocations and of console.log lines, and        *)
(* whether an exception has propagated out of it.                          *)
(***************************************************************************)
Begin == [hl |-> highlightedCountries, canvas |-> canvas,
          box |-> holderBoundingBox, base |-> baseProjectionScale,
          proj |-> projection, zoom |-> zoom, zoomed |-> zoomedCountry,
          sched |-> schedules, ended |-> ended,
          renders |-> 0, logs |-> 0, threw |-> FALSE]

RemoveAt(seq, i) == SubSeq(seq, 1, i - 1) \o SubSeq(seq, i + 1, Len(seq))

Pass(op, path, style) == [op |-> op, path |-> path, style |-> style]

\* The fill passes of the highlighted countries, in list order.
RECURSIVE HighlightPasses(_)
HighlightPasses(hl) ==
    IF hl = << >> THEN << >>
    ELSE << Pass("fill", countriesGeoJson[Head(hl).geojson].id, Head(hl).color) >>
         \o HighlightPasses(Tail(hl))

\* A render that strokes the borders before it fills the highlights.
DrawPasses_bordersFirst(hl) ==
    << Pass("clearRect", "none", "none"),
       Pass("stroke", "Sphere", "globe.strokeStyle") >>
    \o (IF settings.globeFillStyle # "null"
        THEN << Pass("fill", "Sphere", settings.globeFillStyle) >> ELSE << >>)
    \o << Pass("fill", "land", "land.fillStyle") >>
    \o (IF settings.landStrokeWidth > 0
        THEN << Pass("stroke", "land", "land.strokeStyle") >> ELSE << >>)
    \o << Pass("stroke", "borders", "borders.strokeStyle") >>
    \o HighlightPasses(hl)

\* The draw passes one render() issues for the highlight list hl.
DrawPasses(hl) ==
    << Pass("clearRect", "none", "none"),
       Pass("stroke", "Sphere", "globe.strokeStyle") >>
    \o (IF settings.globeFillStyle # "null"
        THEN << Pass("fill", "Sphere", settings.globeFillStyle) >> ELSE << >>)
    \o << Pass("fill", "land", "land.fillStyle") >>
    \o (IF settings.landStrokeWidth > 0
        THEN << Pass("stroke", "land", "land.strokeStyle") >> ELSE << >>)
    \o HighlightPasses(hl)
    \o << Pass("stroke", "borders", "borders.strokeStyle") >>

\* render(): with no canvas context yet, context.clearRect throws a TypeError.
render(st) ==
    IF canvasContext = "undefined"
    THEN [st EXCEPT !.renders = @ + 1, !.threw = TRUE]
    ELSE [st EXCEPT !.renders = @ + 1, !.canvas = DrawPasses(st.hl)]

\* getCountryGeoJson: the first feature whose lowercased name is the lowercased
\* argument, or undefined.
getCountryGeoJson(countryName) ==
    LET hits == {i \in DOMAIN countriesGeoJson :
                    toLowerCase(countriesGeoJson[i].name) = toLowerCase(countryName)}
    IN IF hits = {} THEN Undefined
       ELSE CHOOSE i \in hits : \A j \in hits : i <= j

isCountryHighlighted(hl, countryName) ==
    LET countryGeoJson == getCountryGeoJson(countryName) IN
    IF countryGeoJson # Undefined
       /\ ~ \E k \in DOMAIN hl : hl[k].id = countriesGeoJson[countryGeoJson].id
    THEN FALSE
    ELSE TRUE

\* highlightCountry without the already-highlighted test.
highlightCountry_noCheck(st, countryName, color, doRender) ==
    LET countryGeoJson == getCountryGeoJson(countryName) IN
    IF countryGeoJson # Undefined
    THEN LET entry == [id |-> countriesGeoJson[countryGeoJson].id,
                       name |-> toLowerCase(countryName),
                       color |-> IF color = NoColor THEN settings.highlightColor
                                                    ELSE color,
                       geojson |-> countryGeoJson]
             pushed == [st EXCEPT !.hl = Append(@, entry)]
         IN IF doRender THEN render(pushed) ELSE pushed
    ELSE st

\* highlightCountry that repaints an already highlighted country in the new color.
highlightCountry_recolor(st, countryName, color, doRender) ==
    LET countryGeoJson == getCountryGeoJson(countryName)
        newColor == IF color = NoColor THEN settings.highlightColor ELSE color
    IN
    IF countryGeoJson = Undefined THEN st
    ELSE IF isCountryHighlighted(st.hl, countryName) = FALSE
         THEN LET entry == [id |-> countriesGeoJson[countryGeoJson].id,
                            name |-> toLowerCase(countryName),
                            color |-> newColor,
                            geojson |-> countryGeoJson]
                  pushed == [st EXCEPT !.hl = Append(@, entry)]
              IN IF doRender THEN render(pushed) ELSE pushed
         ELSE [st EXCEPT !.hl =
                  [k \in DOMAIN @ |->
                      IF @[k].id = countriesGeoJson[countryGeoJson].id
                      THEN [@[k] EXCEPT !.color = newColor] ELSE @[k]]]

\* highlightCountry that renders before it pushes the new entry.
highlightCountry_renderFirst(st, countryName, color, doRender) ==
    LET countryGeoJson == getCountryGeoJson(countryName) IN
    IF countryGeoJson # Null
    THEN IF isCountryHighlighted(st.hl, countryName) = FALSE
         THEN LET entry == [id |-> countriesGeoJson[countryGeoJson].id,
                            name |-> toLowerCase(countryName),
                            color |-> IF color = NoColor THEN settings.highlightColor
                                                         ELSE color,
                            geojson |-> countryGeoJson]
                  rendered == IF doRender THEN render(st) ELSE st
              IN [rendered EXCEPT !.hl = Append(@, entry)]
         ELSE st
    ELSE [st EXCEPT !.logs = @ + 1]

highlightCountry(st, countryName, color, doRender) ==
    LET countryGeoJson == getCountryGeoJson(countryName) IN
    IF countryGeoJson # Null
    THEN IF isCountryHighlighted(st.hl, countryName) = FALSE
         THEN LET entry == [id |-> countriesGeoJson[countryGeoJson].id,
                            name |-> toLowerCase(countryName),
                            color |-> IF color = NoColor THEN settings.highlightColor
                                                         ELSE color,
                            geojson |-> countryGeoJson]
                  pushed == [st EXCEPT !.hl = Append(@, entry)]
              IN IF doRender THEN render(pushed) ELSE pushed
         ELSE st
    ELSE [st EXCEPT !.logs = @ + 1]

\* unhighlightCountry comparing the stored name with the name as given.
unhighlightCountry_caseSensitive(st, name, doRender) ==
    LET hits == {i \in DOMAIN st.hl : st.hl[i].name = name} IN
    IF hits = {} THEN st
    ELSE LET i == CHOOSE h \in hits : \A j \in hits : h <= j
             spliced == [st EXCEPT !.hl = RemoveAt(@, i)]
         IN IF doRender THEN render(spliced) ELSE spliced

unhighlightCountry(st, name, doRender) ==
    LET hits == {i \in DOMAIN st.hl : st.hl[i].name = toLowerCase(name)} IN
    IF hits = {} THEN st
    ELSE LET i == CHOOSE h \in hits : \A j \in hits : h <= j
             spliced == [st EXCEPT !.hl = RemoveAt(@, i)]
         IN IF doRender THEN render(spliced) ELSE spliced

\* The loop of highlightRegion over countries[i], i = from .. length.
RECURSIVE highlightMembers(_, _, _, _)
highlightMembers(st, countries, from, color) ==
    IF from > Len(countries) THEN st
    ELSE highlightMembers(highlightCountry(st, countries[from], color, FALSE),
                          countries, from + 1, color)

\* The loop of a highlightRegion that lets every member render.
RECURSIVE highlightMembers_renderEach(_, _, _, _)
highlightMembers_renderEach(st, countries, from, color) ==
    IF from > Len(countries) THEN st
    ELSE highlightMembers_renderEach(
             highlightCountry(st, countries[from], color, TRUE),
             countries, from + 1, color)

\* highlightRegion that renders once per newly highlighted member.
highlightRegion_renderEach(st, regionName, color) ==
    IF RegionDefined(regionName)
    THEN highlightMembers_renderEach(st, REGION_COUNTRY_MAP[regionName], 1, color)
    ELSE [st EXCEPT !.logs = @ + 1]

highlightRegion(st, regionName, color) ==
    IF RegionDefined(regionName)
    THEN render(highlightMembers(st, REGION_COUNTRY_MAP[regionName], 1, color))
    ELSE [st EXCEPT !.logs = @ + 1]

RECURSIVE unhighlightMembers(_, _, _)
unhighlightMembers(st, countries, from) ==
    IF from > Len(countries) THEN st
    ELSE unhighlightMembers(unhighlightCountry(st, countries[from], FALSE),
                            countries, from + 1)

unhighlightRegion(st, regionName) ==
    IF RegionDefined(regionName)
    THEN render(unhighlightMembers(st, REGION_COUNTRY_MAP[regionName], 1))
    ELSE [st EXCEPT !.logs = @ + 1]

highlight(st, name, color) ==
    IF RegionDefined(name) THEN highlightRegion(st, name, color)
    ELSE highlightCountry(st, name, color, TRUE)

unhighlight(st, name) ==
    IF RegionDefined(name) THEN unhighlightRegion(st, name)
    ELSE unhighlightCountry(st, name, TRUE)

(***************************************************************************)
(* Navigation.  Numbers: a zoom factor is kept in hundredths (100 is the   *)
(* factor 1, 1400 the factor 14), so that baseProjectionScale * zoom is    *)
(* Scaled(base, zoom).  A zoom argument is a number, the string 'auto', or *)
(* anything else (null, undefined passed on, another string).              *)
(***************************************************************************)
TMax == 2
MaxCalls == 2

Min(a, b) == IF a <= b THEN a ELSE b
Scaled(base, z) == (base * z) \div 100

Num(v) == [kind |-> "number", v |-> v]
Auto == [kind |-> "auto", v |-> 0]
NotANumber == [kind |-> "other", v |-> 0]

NoCountry == "undefined"
NoProjection == [rotate |-> << 0, 0 >>, scale |-> 0]

\* geoOrthographic().fitExtent([[0, 0], [width, height]], {type: 'Sphere'}).scale():
\* the sphere's radius is half the smaller side.
FitSphere(width, height) == Min(width, height) \div 2

\* setupProjection(): a fresh projection (rotation [0, 0]) fitted to the extent
\* [[w - w * zoom, h - h * zoom], [w * zoom, h * zoom]], and the base scale.
setupProjection(st) ==
    LET w == st.box.width
        h == st.box.height
        left == w - Scaled(w, st.zoom)
        top == h - Scaled(h, st.zoom)
    IN [st EXCEPT
          !.proj = [rotate |-> << 0, 0 >>,
                    scale |-> FitSphere(Scaled(w, st.zoom) - left,
                                        Scaled(h, st.zoom) - top)],
          !.base = FitSphere(w, h)]

\* The hand-tuned zoom levels of calculateZoomLevelForFullscreenCountry.
predefinedFillZoomLevels ==
    [n \in {"australia", "germany", "ireland", "mexico", "sweden", "united states"} |->
        CASE n = "australia" -> 250
          [] n = "germany" -> 1400
          [] n = "ireland" -> 2000
          [] n = "mexico" -> 380
          [] n = "sweden" -> 800
          [] n = "united states" -> 200]

\* calculateZoomLevelForFullscreenCountry: the table is read with the name as
\* given; otherwise 0.65 * fitted scale / base scale; never below 1.
calculateZoomLevelForFullscreenCountry(countryName, countryGeoJson) ==
    LET zoomlevel ==
            IF countryName \in DOMAIN predefinedFillZoomLevels
            THEN predefinedFillZoomLevels[countryName]
            ELSE (countriesGeoJson[countryGeoJson].fit * 65) \div 100
    IN IF zoomlevel < 100 THEN 100 ELSE zoomlevel

\* interpolate(a, b)(t) and geoInterpolate(a, b)(t) at the progress t / TMax:
\* a at 0, b at TMax, a point between them otherwise.
Interp(a, b, t) == a + ((b - a) * t) \div TMax
InterpRotation(a, b, t) == << Interp(a[1], b[1], t), Interp(a[2], b[2], t) >>

(***************************************************************************)
(* A transition of the document root, as d3-transition schedules it:       *)
(* transition() with no name always takes the root element and the name    *)
(* null.  state is SCHEDULED from the call until the transition starts,    *)
(* then RUNNING until its last frame; the tween factory runs at the start. *)
(* undisturbed and superseding are history, not program state: whether no  *)
(* later transition or resize came after the call, and the state the       *)
(* newest centerOnCountry transition was in when the call was made         *)
(* ("none" when there was none).                                           *)
(***************************************************************************)
Session(tween, name, geojson, z, ox, oy, fromScale, toScale, scaled) ==
    [tween |-> tween, state |-> "SCHEDULED", name |-> name, geojson |-> geojson,
     zoom |-> z, offsetX |-> ox, offsetY |-> oy,
     fromRotate |-> << 0, 0 >>, toRotate |-> << 0, 0 >>,
     fromScale |-> fromScale, toScale |-> toScale, scaled |-> scaled,
     t |-> 0, undisturbed |-> TRUE, superseding |-> "none"]

NoSession ==
    [Session("none", "none", Undefined, NotANumber, 0, 0, 0, 0, FALSE)
        EXCEPT !.state = "ENDED"]

Disturb(sched) == [i \in DOMAIN sched |-> [sched[i] EXCEPT !.undisturbed = FALSE]]

\* transition().duration(1250).tween(...): one more transition of the root.
transition(st, s) ==
    LET live == {i \in DOMAIN st.sched : st.sched[i].tween = "centerOnCountry"}
        newest == CHOOSE i \in live : \A j \in live : j <= i
    IN [st EXCEPT !.sched =
           Append(Disturb(@),
                  [s EXCEPT !.superseding =
                       IF live = {} THEN "none" ELSE st.sched[newest].state])]

\* zoomOnCountry remembering the name before it has looked the country up.
zoomOnCountry_rememberFirst(st, countryName, zoomArg, offsetX, offsetY) ==
    LET countryGeoJson == getCountryGeoJson(countryName)
        named == [st EXCEPT !.zoomed = countryName]
    IN
    IF countryGeoJson # Undefined
    THEN LET z == IF zoomArg.kind = "auto"
                  THEN Num(calculateZoomLevelForFullscreenCountry(countryName,
                                                                  countryGeoJson))
                  ELSE zoomArg
         IN transition(named,
                       Session("centerOnCountry", countryName, countryGeoJson, z,
                               offsetX, offsetY, 0, 0, FALSE))
    ELSE [named EXCEPT !.logs = @ + 1]

zoomOnCountry(st, countryName, zoomArg, offsetX, offsetY) ==
    LET countryGeoJson == getCountryGeoJson(countryName) IN
    IF countryGeoJson # Undefined
    THEN LET z == IF zoomArg.kind = "auto"
                  THEN Num(calculateZoomLevelForFullscreenCountry(countryName,
                                                                  countryGeoJson))
                  ELSE zoomArg
         IN transition([st EXCEPT !.zoomed = countryName],
                       Session("centerOnCountry", countryName, countryGeoJson, z,
                               offsetX, offsetY, 0, 0, FALSE))
    ELSE [st EXCEPT !.logs = @ + 1]

\* setZoom without the test that the factor differs from this.zoom.
setZoom_always(st, zoomArg) ==
    IF zoomArg.kind = "number"
    THEN transition([st EXCEPT !.zoom = zoomArg.v],
                    Session("zoom", "none", Undefined, zoomArg, 0, 0,
                            st.proj.scale, Scaled(st.base, zoomArg.v), TRUE))
    ELSE st

\* setZoom: the scale interpolator is built in the call, before the transition.
setZoom(st, zoomArg) ==
    IF zoomArg.kind = "number" /\ zoomArg.v # st.zoom
    THEN transition([st EXCEPT !.zoom = zoomArg.v],
                    Session("zoom", "none", Undefined, zoomArg, 0, 0,
                            st.proj.scale, Scaled(st.base, zoomArg.v), TRUE))
    ELSE st

resetZoom(st) == setZoom(st, Num(100))

\* A resize that recentres on the zoomed country but keeps the fitted scale.
resize_keepScale(st, box) ==
    LET fresh == setupProjection([st EXCEPT !.box = box, !.sched = Disturb(@)])
        recentred ==
            IF fresh.zoomed # NoCountry
            THEN LET c == countriesGeoJson[getCountryGeoJson(fresh.zoomed)].centroid
                 IN [fresh EXCEPT !.proj.rotate = << 0 - c[1], 0 - c[2] >>]
            ELSE fresh
    IN render(recentred)

\* resize(): new box, new projection, recentred on the zoomed country if any.
resize(st, box) ==
    LET fresh == setupProjection([st EXCEPT !.box = box, !.sched = Disturb(@)])
        recentred ==
            IF fresh.zoomed # NoCountry
            THEN LET c == countriesGeoJson[getCountryGeoJson(fresh.zoomed)].centroid
                 IN [fresh EXCEPT
                       !.proj = [rotate |-> << 0 - c[1], 0 - c[2] >>,
                                 scale |-> Scaled(fresh.base, fresh.zoom)]]
            ELSE fresh
    IN render(recentred)

\* The tween factory of a transition, run when the transition starts: it reads
\* the projection as it is then, and centerOnCountry sets this.zoom.
\* The factory aiming at the bare centroid, as resize() does.
factory_noOffsets(st, s) ==
    IF s.tween = "centerOnCountry"
    THEN LET c == countriesGeoJson[s.geojson].centroid
             rotating == [s EXCEPT !.fromRotate = st.proj.rotate,
                                   !.toRotate = << 0 - c[1], 0 - c[2] >>]
         IN IF s.zoom.kind = "number"
            THEN [st |-> [st EXCEPT !.zoom = s.zoom.v],
                  s |-> [rotating EXCEPT !.fromScale = st.proj.scale,
                                         !.toScale = Scaled(st.base, s.zoom.v),
                                         !.scaled = TRUE]]
            ELSE [st |-> st, s |-> rotating]
    ELSE [st |-> st, s |-> s]

factory(st, s) ==
    IF s.tween = "centerOnCountry"
    THEN LET c == countriesGeoJson[s.geojson].centroid
             rotating == [s EXCEPT !.fromRotate = st.proj.rotate,
                                   !.toRotate = << 0 - c[1] - s.offsetX,
                                                   0 - c[2] - s.offsetY >>]
         IN IF s.zoom.kind = "number"
            THEN [st |-> [st EXCEPT !.zoom = s.zoom.v],
                  s |-> [rotating EXCEPT !.fromScale = st.proj.scale,
                                         !.toScale = Scaled(st.base, s.zoom.v),
                                         !.scaled = TRUE]]
            ELSE [st |-> st, s |-> rotating]
    ELSE [st |-> st, s |-> s]

\* One frame of a transition at progress t: rotate, scale, render.  A frame of
\* another globe's transition works on that globe's projection and canvas.
frame(st, s, t) ==
    IF s.tween = "otherGlobe" THEN st ELSE
    LET rotated == IF s.tween = "centerOnCountry"
                   THEN [st.proj EXCEPT !.rotate =
                            InterpRotation(s.fromRotate, s.toRotate, t)]
                   ELSE st.proj
        scaled == IF s.scaled
                  THEN [rotated EXCEPT !.scale = Interp(s.fromScale, s.toScale, t)]
                  ELSE rotated
    IN render([st EXCEPT !.proj = scaled])

\* After a frame at progress t the transition goes on, or has ended at TMax.
settle(st, s, t) ==
    IF t = TMax THEN [st EXCEPT !.ended = [s EXCEPT !.state = "ENDED", !.t = t]]
    ELSE [st EXCEPT !.sched = Append(@, [s EXCEPT !.state = "RUNNING", !.t = t])]

\* A transition starts: it interrupts the running transition of the same
\* element and name and cancels the older ones not yet started, that is every
\* transition before it in the schedule; then its factory runs, then its
\* first frame.
\* A start that leaves the older transitions of the element alone.
start_noInterrupt(st, s, t) ==
    LET made == factory(st, s)
    IN settle(frame(made.st, made.s, t), made.s, t)

start(st, s, t) ==
    LET made == factory([st EXCEPT !.sched = << >>], s)
    IN settle(frame(made.st, made.s, t), made.s, t)

\* One pass of the timer queue (timerFlush) over the transitions todo, oldest
\* first: a running transition gets its next frame, a scheduled one starts.
\* st.sched holds the transitions already visited that are still alive.
\* The state a transition leaves is a value (next) before the rest is visited.
RECURSIVE runTimers(_, _, _, _)
runTimers(st, todo, ts, k) ==
    IF todo = << >> THEN st
    ELSE LET s == Head(todo)
             after == {IF s.state = "RUNNING"
                       THEN settle(frame(st, s, ts[k]), s, ts[k])
                       ELSE start(st, s, ts[k])}
         IN CHOOSE r \in {runTimers(next, Tail(todo), ts, k + 1) : next \in after} :
                TRUE

(***************************************************************************)
(* The public calls.  Each records in last which call it was, with which   *)
(* arguments, and what the call did.                                       *)
(***************************************************************************)
Call(op, name, color, doRender, result, st) ==
    [op |-> op, name |-> name, color |-> color, render |-> doRender,
     result |-> result, renders |-> st.renders, logs |-> st.logs,
     threw |-> st.threw]

HighlightCountry ==
    \E name \in CountryNames, color \in Colors, doRender \in BOOLEAN :
        LET st == highlightCountry(Begin, name, color, doRender) IN
        /\ highlightedCountries' = st.hl
        /\ canvas' = st.canvas
        /\ last' = Call("highlightCountry", name, color, doRender, FALSE, st)
        /\ UNCHANGED << canvasContext, settings, navVars >>

UnhighlightCountry ==
    \E name \in CountryNames, doRender \in BOOLEAN :
        LET st == unhighlightCountry(Begin, name, doRender) IN
        /\ highlightedCountries' = st.hl
        /\ canvas' = st.canvas
        /\ last' = Call("unhighlightCountry", name, NoColor, doRender, FALSE, st)
        /\ UNCHANGED << canvasContext, settings, navVars >>

HighlightRegion ==
    \E name \in RegionNames, color \in Colors :
        LET st == highlightRegion(Begin, name, color) IN
        /\ highlightedCountries' = st.hl
        /\ canvas' = st.canvas
        /\ last' = Call("highlightRegion", name, color, TRUE, FALSE, st)
        /\ UNCHANGED << canvasContext, settings, navVars >>

UnhighlightRegion ==
    \E name \in RegionNames :
        LET st == unhighlightRegion(Begin, name) IN
        /\ highlightedCountries' = st.hl
        /\ canvas' = st.canvas
        /\ last' = Call("unhighlightRegion", name, NoColor, TRUE, FALSE, st)
        /\ UNCHANGED << canvasContext, settings, navVars >>

Highlight ==
    \E name \in Names, color \in Colors :
        LET st == highlight(Begin, name, color) IN
        /\ highlightedCountries' = st.hl
        /\ canvas' = st.canvas
        /\ last' = Call("highlight", name, color, TRUE, FALSE, st)
        /\ UNCHANGED << canvasContext, settings, navVars >>

Unhighlight ==
    \E name \in Names :
        LET st == unhighlight(Begin, name) IN
        /\ highlightedCountries' = st.hl
        /\ canvas' = st.canvas
        /\ last' = Call("unhighlight", name, NoColor, TRUE, FALSE, st)
        /\ UNCHANGED << canvasContext, settings, navVars >>

IsCountryHighlighted ==
    \E name \in CountryNames :
        /\ last' = Call("isCountryHighlighted", name, NoColor, TRUE,
                        isCountryHighlighted(highlightedCountries, name), Begin)
        /\ UNCHANGED << canvasContext, settings, highlightedCountries, canvas,
                        navVars >>

\* init(): setupLayers creates the canvas and its 2d context, setupProjection
\* the projection, then render().  init() is called once.
InitCall ==
    /\ canvasContext = "undefined"
    /\ canvasContext' = "2d"
    /\ LET st == setupProjection(Begin) IN
        /\ projection' = st.proj
        /\ baseProjectionScale' = st.base
    /\ canvas' = DrawPasses(highlightedCountries)
    /\ last' = [op |-> "init", name |-> "none", color |-> NoColor, render |-> TRUE,
                result |-> FALSE, renders |-> 1, logs |-> 0, threw |-> FALSE]
    /\ UNCHANGED << settings, highlightedCountries, holderBoundingBox, zoom,
                    zoomedCountry, schedules, ended, calls >>

(***************************************************************************)
(* The navigation calls, on an initialized globe: before init() there is   *)
(* no projection for a tween to animate.  A behaviour makes at most        *)
(* MaxCalls navigation calls that schedule a transition or resize; calls   *)
(* that do nothing are not counted.                                        *)
(***************************************************************************)
NavNames == {"germany", "france", "Atlantis"}
ZoomRequests == {[zoom |-> Num(200), offsetX |-> 0, offsetY |-> 0],
                 [zoom |-> Auto, offsetX |-> 4, offsetY |-> 0 - 2]}
SetZoomArgs == {Num(300), NotANumber}
Viewports == {[width |-> 200, height |-> 200], [width |-> 400, height |-> 300]}

Navigated(st, op, name) ==
    /\ projection' = st.proj
    /\ baseProjectionScale' = st.base
    /\ holderBoundingBox' = st.box
    /\ zoom' = st.zoom
    /\ zoomedCountry' = st.zoomed
    /\ schedules' = st.sched
    /\ ended' = st.ended
    /\ canvas' = st.canvas
    /\ calls' = IF op = "resize" \/ (op # "frame" /\ st.sched # schedules)
                THEN calls + 1 ELSE calls
    /\ last' = Call(op, name, NoColor, TRUE, FALSE, st)

ZoomOnCountry ==
    \E name \in NavNames, req \in ZoomRequests :
        /\ canvasContext = "2d"
        /\ calls < MaxCalls
        /\ Navigated(zoomOnCountry([Begin EXCEPT !.ended = NoSession],
                                   name, req.zoom, req.offsetX, req.offsetY),
                     "zoomOnCountry", name)
        /\ UNCHANGED << canvasContext, settings, hlVars >>

SetZoom ==
    \E zoomArg \in SetZoomArgs :
        /\ canvasContext = "2d"
        /\ calls < MaxCalls
        /\ Navigated(setZoom([Begin EXCEPT !.ended = NoSession], zoomArg),
                     "setZoom", "none")
        /\ UNCHANGED << canvasContext, settings, hlVars >>

ResetZoom ==
    /\ canvasContext = "2d"
    /\ calls < MaxCalls
    /\ Navigated(resetZoom([Begin EXCEPT !.ended = NoSession]), "resetZoom", "none")
    /\ UNCHANGED << canvasContext, settings, hlVars >>

\* The debounced resize listener init() installs, or a call of resize().
Resize ==
    \E box \in Viewports :
        /\ canvasContext = "2d"
        /\ calls < MaxCalls
        /\ Navigated(resize([Begin EXCEPT !.ended = NoSession], box), "resize", "none")
        /\ UNCHANGED << canvasContext, settings, hlVars >>

\* An animation frame: the timer queue runs every live transition once, each
\* at a progress of its own that is later than its previous one.
Flush ==
    /\ schedules # << >>
    /\ \E ts \in [DOMAIN schedules -> 0 .. TMax] :
        /\ \A i \in DOMAIN schedules :
               schedules[i].state = "RUNNING" => ts[i] > schedules[i].t
        /\ \E st \in {runTimers([Begin EXCEPT !.sched = << >>, !.ended = NoSession],
                                schedules, ts, 1)} :
               Navigated(st, "frame", "none")
    /\ UNCHANGED << canvasContext, settings, hlVars >>

\* The state after new GlobeMap(document, settings) with no highlightedCountries
\* and no highlightedRegions configured: nothing highlighted, nothing drawn,
\* no projection yet, zoom 1.
Init ==
    /\ canvasContext = "undefined"
    /\ settings = [highlightColor |-> defaultHighlightColor,
                   globeFillStyle |-> "null", landStrokeWidth |-> 0]
    /\ highlightedCountries = << >>
    /\ canvas = << >>
    /\ holderBoundingBox = [width |-> 200, height |-> 200]
    /\ baseProjectionScale = 0
    /\ projection = NoProjection
    /\ zoom = 100
    /\ zoomedCountry = NoCountry
    /\ schedules = << >>
    /\ ended = NoSession
    /\ calls = 0
    /\ last = [op |-> "new", name |-> "none", color |-> NoColor, render |-> TRUE,
               result |-> FALSE, renders |-> 0, logs |-> 0, threw |-> FALSE]

\* The highlight store of one globe.
Next ==
    \/ InitCall
    \/ HighlightCountry
    \/ UnhighlightCountry
    \/ HighlightRegion
    \/ UnhighlightRegion
    \/ Highlight
    \/ Unhighlight
    \/ IsCountryHighlighted

Spec == Init /\ [][Next]_vars

\* The navigation engine of one globe.
ZoomNext ==
    \/ InitCall
    \/ ZoomOnCountry
    \/ SetZoom
    \/ ResetZoom
    \/ Resize
    \/ Flush

ZoomSpec == Init /\ [][ZoomNext]_vars

\* The browser keeps running the timer queue while a transition is live.
FairZoomSpec == ZoomSpec /\ WF_vars(Flush)

(***************************************************************************)
(* The rest of the zooming API: zoomOn, the region shortcuts, and calls    *)
(* with arguments left out, with other casings and with factors below 1.   *)
(***************************************************************************)
\* An argument the caller left out: undefined.
Omitted == [kind |-> "undefined", v |-> 0]

\* zoomlevel || d
OrDefault(zoomlevel, d) ==
    IF zoomlevel = Omitted \/ (zoomlevel.kind = "number" /\ zoomlevel.v = 0)
    THEN Num(d) ELSE zoomlevel

\* A parameter with a default value: the default replaces undefined.
DefaultTo(arg, d) == IF arg = Omitted THEN d ELSE arg

zoomOnAustraliaAndNewZealand(st, zoomlevel, offsetX, offsetY) ==
    zoomOnCountry(st, "australia", OrDefault(zoomlevel, 180),
                  10 + DefaultTo(offsetX, Num(0)).v, DefaultTo(offsetY, Num(0)).v)

zoomOnEurope(st, zoomlevel, offsetX, offsetY) ==
    zoomOnCountry(st, "germany", OrDefault(zoomlevel, 280),
                  DefaultTo(offsetX, Num(0)).v, DefaultTo(offsetY, Num(0)).v)

\* this.regionToZoomFunction: the regions that have a shortcut.
regionToZoomFunction == {"australia and new zealand", "europe"}

zoomOn(st, name, zoomArg, offsetX, offsetY) ==
    LET n == toLowerCase(name) IN
    IF n \in regionToZoomFunction
    THEN IF n = "europe"
         THEN zoomOnEurope(st, zoomArg, offsetX, offsetY)
         ELSE zoomOnAustraliaAndNewZealand(st, zoomArg, offsetX, offsetY)
    ELSE zoomOnCountry(st, n, DefaultTo(zoomArg, Auto),
                       DefaultTo(offsetX, Num(0)).v, DefaultTo(offsetY, Num(0)).v)

\* The arguments the calls are made with.
ShortcutRequests == {[zoom |-> Omitted, offsetX |-> Omitted, offsetY |-> Omitted],
                     [zoom |-> Num(300), offsetX |-> Num(4), offsetY |-> Num(0 - 2)]}
ZoomOnNames == {"Europe", "australia and new zealand", "Germany", "Atlantis"}
CasedNames == {"germany", "Germany", "GERMANY", "france", "australia"}
CasedZooms == {Auto, Num(50)}
AnyZooms == {Num(50), Num(100), Num(300)}

\* A navigation call recorded with its arguments.
Requested(st, op, name, zoomArg, offsetX, offsetY) ==
    /\ projection' = st.proj
    /\ baseProjectionScale' = st.base
    /\ holderBoundingBox' = st.box
    /\ zoom' = st.zoom
    /\ zoomedCountry' = st.zoomed
    /\ schedules' = st.sched
    /\ ended' = st.ended
    /\ canvas' = st.canvas
    /\ calls' = IF st.sched # schedules THEN calls + 1 ELSE calls
    /\ last' = [op |-> op, name |-> name, color |-> NoColor, render |-> TRUE,
                result |-> FALSE, renders |-> st.renders, logs |-> st.logs,
                threw |-> st.threw,
                zoom |-> zoomArg, offsetX |-> offsetX, offsetY |-> offsetY]
    /\ UNCHANGED << canvasContext, settings, hlVars >>

ZoomOnEurope ==
    \E req \in ShortcutRequests :
        /\ canvasContext = "2d"
        /\ calls < MaxCalls
        /\ Requested(zoomOnEurope([Begin EXCEPT !.ended = NoSession],
                                  req.zoom, req.offsetX, req.offsetY),
                     "zoomOnEurope", "none", req.zoom, req.offsetX, req.offsetY)

ZoomOnAustraliaAndNewZealand ==
    \E req \in ShortcutRequests :
        /\ canvasContext = "2d"
        /\ calls < MaxCalls
        /\ Requested(zoomOnAustraliaAndNewZealand([Begin EXCEPT !.ended = NoSession],
                                                  req.zoom, req.offsetX, req.offsetY),
                     "zoomOnAustraliaAndNewZealand", "none",
                     req.zoom, req.offsetX, req.offsetY)

ZoomOn ==
    \E name \in ZoomOnNames, req \in ShortcutRequests :
        /\ canvasContext = "2d"
        /\ calls < MaxCalls
        /\ Requested(zoomOn([Begin EXCEPT !.ended = NoSession],
                            name, req.zoom, req.offsetX, req.offsetY),
                     "zoomOn", name, req.zoom, req.offsetX, req.offsetY)

ZoomOnCountryCased ==
    \E name \in CasedNames, zoomArg \in CasedZooms :
        /\ canvasContext = "2d"
        /\ calls < MaxCalls
        /\ Requested(zoomOnCountry([Begin EXCEPT !.ended = NoSession],
                                   name, zoomArg, 0, 0),
                     "zoomOnCountry", name, zoomArg, Num(0), Num(0))

SetZoomAny ==
    \E zoomArg \in AnyZooms :
        /\ canvasContext = "2d"
        /\ calls < MaxCalls
        /\ Requested(setZoom([Begin EXCEPT !.ended = NoSession], zoomArg),
                     "setZoom", "none", zoomArg, Omitted, Omitted)

\* The zooming API of one globe, called with any of these arguments.
ApiNext ==
    \/ InitCall
    \/ ZoomOnEurope
    \/ ZoomOnAustraliaAndNewZealand
    \/ ZoomOn
    \/ ZoomOnCountryCased
    \/ SetZoomAny
    \/ Flush

ApiSpec == Init /\ [][ApiNext]_vars

\* The debounced resize listener firing once more after the last call.
LateResize ==
    \E box \in Viewports :
        /\ canvasContext = "2d"
        /\ calls = MaxCalls
        /\ Navigated(resize([Begin EXCEPT !.ended = NoSession], box), "resize", "none")
        /\ UNCHANGED << canvasContext, settings, hlVars >>

\* The navigation engine of one globe whose window is resized at any time.
ResizeNext ==
    \/ InitCall
    \/ ZoomOnCountry
    \/ SetZoom
    \/ ResetZoom
    \/ Resize
    \/ Flush
    \/ LateResize

ResizeSpec == Init /\ [][ResizeNext]_vars

(***************************************************************************)
(* new GlobeMap(document, customSettings) with settings of the caller's:   *)
(* a globe fill, a land stroke width, countries and regions to highlight.  *)
(***************************************************************************)
CustomSettings ==
    [globeFillStyle : {"null", "#00F"},
     landStrokeWidth : {0, 1},
     highlightedCountries :
         {<< >>, << [name |-> "Germany", color |-> "#F00"],
                    [name |-> "france", color |-> NoColor] >>},
     highlightedRegions : {<< >>, << [name |-> "europe", color |-> NoColor] >>}]

\* The constructor's loops over settings.highlightedCountries and
\* settings.highlightedRegions; an exception ends the constructor.
RECURSIVE highlightConfiguredCountries(_, _)
highlightConfiguredCountries(st, entries) ==
    IF entries = << >> \/ st.threw THEN st
    ELSE highlightConfiguredCountries(
             highlightCountry(st, Head(entries).name, Head(entries).color, TRUE),
             Tail(entries))

RECURSIVE highlightConfiguredRegions(_, _)
highlightConfiguredRegions(st, entries) ==
    IF entries = << >> \/ st.threw THEN st
    ELSE highlightConfiguredRegions(
             highlightRegion(st, Head(entries).name, Head(entries).color),
             Tail(entries))

\* The fields the constructor sets before its loops.
Fresh == [hl |-> << >>, canvas |-> << >>,
          box |-> [width |-> 200, height |-> 200], base |-> 0,
          proj |-> NoProjection, zoom |-> 100, zoomed |-> NoCountry,
          sched |-> << >>, ended |-> NoSession,
          renders |-> 0, logs |-> 0, threw |-> FALSE]

constructor(customSettings) ==
    highlightConfiguredRegions(
        highlightConfiguredCountries(Fresh, customSettings.highlightedCountries),
        customSettings.highlightedRegions)

\* The state new GlobeMap(document, customSettings) leaves, thrown or not.
ConfiguredInit ==
    \E customSettings \in CustomSettings :
        /\ canvasContext = "undefined"
        /\ settings = [highlightColor |-> defaultHighlightColor,
                       globeFillStyle |-> customSettings.globeFillStyle,
                       landStrokeWidth |-> customSettings.landStrokeWidth,
                       highlightedCountries |-> customSettings.highlightedCountries,
                       highlightedRegions |-> customSettings.highlightedRegions]
        /\ \E st \in {constructor(customSettings)} :
            /\ highlightedCountries = st.hl
            /\ canvas = st.canvas
            /\ holderBoundingBox = st.box
            /\ baseProjectionScale = st.base
            /\ projection = st.proj
            /\ zoom = st.zoom
            /\ zoomedCountry = st.zoomed
            /\ schedules = st.sched
            /\ ended = st.ended
            /\ calls = 0
            /\ last = Call("new", "none", NoColor, TRUE, FALSE, st)

\* The constructor threw: the caller has no instance to call.
Crashed == last.op = "new" /\ last.threw

\* The calls made on the instance the constructor returned.
LiveInitCall == ~ Crashed /\ InitCall
LiveHighlightCountry == ~ Crashed /\ HighlightCountry
LiveUnhighlightCountry == ~ Crashed /\ UnhighlightCountry

\* The life of a configured globe: init() and highlight calls.
LifeNext ==
    \/ LiveInitCall
    \/ LiveHighlightCountry
    \/ LiveUnhighlightCountry

LifeSpec == ConfiguredInit /\ [][LifeNext]_vars

(***************************************************************************)
(* A second globe on the page.  Its zoomOnCountry and setZoom call the     *)
(* same transition(): one more transition of the same document root under  *)
(* the same name, whose tween works on the second globe's fields.          *)
(***************************************************************************)
OtherGlobeTransition ==
    /\ canvasContext = "2d"
    /\ calls < MaxCalls
    /\ schedules' = Append(schedules,
                           Session("otherGlobe", "none", Undefined, NotANumber,
                                   0, 0, 0, 0, FALSE))
    /\ ended' = NoSession
    /\ calls' = calls + 1
    /\ last' = Call("otherGlobe", "none", NoColor, TRUE, FALSE, Begin)
    /\ UNCHANGED << canvasContext, settings, hlVars, canvas, holderBoundingBox,
                    baseProjectionScale, projection, zoom, zoomedCountry >>

\* Two globes on one page: this globe's navigation and the other's transitions.
PageNext ==
    \/ InitCall
    \/ ZoomOnCountry
    \/ SetZoom
    \/ OtherGlobeTransition
    \/ Flush

PageSpec == Init /\ [][PageNext]_vars

(***************************************************************************)
(* setZoom called with a factor that may equal the remembered one, differ  *)
(* from it, or be no number at all (null, undefined, a string), between    *)
(* zoomOnCountry calls and animation frames.                               *)
(***************************************************************************)
Factors == {Num(100), Num(200), Num(300), NotANumber}

SetZoomFactor ==
    \E zoomArg \in Factors :
        /\ canvasContext = "2d"
        /\ calls < MaxCalls
        /\ Requested(setZoom([Begin EXCEPT !.ended = NoSession], zoomArg),
                     "setZoom", "none", zoomArg, Omitted, Omitted)

FactorNext ==
    \/ InitCall
    \/ ZoomOnCountry
    \/ SetZoomFactor
    \/ Flush

FactorSpec == Init /\ [][FactorNext]_vars

(***************************************************************************)
(* Properties of the highlight store.                                      *)
(***************************************************************************)
Known(name) == getCountryGeoJson(name) # Undefined
IdOf(name) == countriesGeoJson[getCountryGeoJson(name)].id
Ids(hl) == {hl[k].id : k \in DOMAIN hl}
Spellings(name) == {n \in CountryNames : toLowerCase(n) = toLowerCase(name)}
HighlightOps == {"highlightCountry", "highlight", "highlightRegion"}

\* The country names a highlight call covers: the members of the region, or
\* the name itself.
Covered(op, name) ==
    IF op = "highlightRegion" \/ (op = "highlight" /\ RegionDefined(name))
    THEN IF RegionDefined(name)
         THEN {REGION_COUNTRY_MAP[name][i] : i \in DOMAIN REGION_COUNTRY_MAP[name]}
         ELSE {}
    ELSE {name}

\* C1: after highlightCountry(name) of a country of the dataset,
\* isCountryHighlighted returns true for every spelling of the name; after
\* unhighlightCountry(name) it returns false for every spelling.
C1_HighlightThenUnhighlight ==
    /\ (last.op = "highlightCountry" /\ Known(last.name)) =>
           \A n \in Spellings(last.name) :
               isCountryHighlighted(highlightedCountries, n) = TRUE
    /\ (last.op = "unhighlightCountry" /\ Known(last.name)) =>
           \A n \in Spellings(last.name) :
               isCountryHighlighted(highlightedCountries, n) = FALSE

\* An upper-case unhighlightCountry has removed the entry a highlight call made.
C1_Witness ==
    /\ last.op = "unhighlightCountry"
    /\ last.name = "GERMANY"
    /\ last.renders = 1
    /\ Len(highlightedCountries) = 1

\* C2: the highlighted list holds at most one entry per country id.
C2_OneEntryPerId ==
    \A i, j \in DOMAIN highlightedCountries :
        highlightedCountries[i].id = highlightedCountries[j].id => i = j

\* A region was highlighted over a list that already held both its members.
C2_Witness ==
    /\ last.op = "highlightRegion"
    /\ last.name = "western europe"
    /\ Len(highlightedCountries) = 2
    /\ highlightedCountries[1].id = "DEU"

\* C3 as claimed: a highlight call that covers an already highlighted country
\* leaves the highlighted list unchanged.
C3_Original ==
    [][ (/\ last'.op \in HighlightOps
         /\ \E n \in Covered(last'.op, last'.name) :
                Known(n) /\ IdOf(n) \in Ids(highlightedCountries))
        => highlightedCountries' = highlightedCountries ]_vars

\* C3 amended: a highlight call keeps every existing entry in its place with its
\* recorded color and adds no entry for an already highlighted country; when the
\* call names that country itself the list is unchanged, when it names a region
\* the only new entries are those of members not yet highlighted.
C3_ExistingEntriesKept ==
    [][ last'.op \in HighlightOps =>
          /\ Len(highlightedCountries') >= Len(highlightedCountries)
          /\ SubSeq(highlightedCountries', 1, Len(highlightedCountries))
                 = highlightedCountries
          /\ \A k \in DOMAIN highlightedCountries' :
                 k > Len(highlightedCountries) =>
                     highlightedCountries'[k].id \notin Ids(highlightedCountries)
          /\ (/\ ~ (last'.op = "highlightRegion")
              /\ ~ (last'.op = "highlight" /\ RegionDefined(last'.name))
              /\ Known(last'.name)
              /\ IdOf(last'.name) \in Ids(highlightedCountries))
             => highlightedCountries' = highlightedCountries ]_vars

\* highlightCountry("GERMANY", "#F00") did nothing: Germany keeps the default color.
C3_Witness ==
    /\ last.op = "highlightCountry"
    /\ last.name = "GERMANY"
    /\ last.color = "#F00"
    /\ last.render = TRUE
    /\ last.renders = 0
    /\ \E k \in DOMAIN highlightedCountries :
           /\ highlightedCountries[k].id = "DEU"
           /\ highlightedCountries[k].color = defaultHighlightColor

\* highlightCountry(member, color), rendering, once per member in table order.
RECURSIVE OneByOne(_, _, _)
OneByOne(st, countries, color) ==
    IF countries = << >> THEN st
    ELSE OneByOne(highlightCountry(st, Head(countries), color, TRUE),
                  Tail(countries), color)

\* C4: highlightRegion(R, color) ends with the membership that one
\* highlightCountry call per member of R gives, which is the old membership
\* plus the members the dataset knows, and it invokes render exactly once.
C4_RegionAsMembers ==
    [][ (last'.op = "highlightRegion" /\ RegionDefined(last'.name)) =>
          /\ Ids(highlightedCountries') =
                 Ids(OneByOne(Begin, REGION_COUNTRY_MAP[last'.name], last'.color).hl)
          /\ Ids(highlightedCountries') =
                 Ids(highlightedCountries)
                 \cup {IdOf(n) : n \in {m \in Covered("highlightRegion", last'.name) :
                                          Known(m)}}
          /\ last'.renders = 1 ]_vars

\* highlightRegion("europe") has highlighted both countries with one render.
C4_Witness ==
    /\ last.op = "highlightRegion"
    /\ last.name = "europe"
    /\ last.renders = 1
    /\ canvasContext = "2d"
    /\ Ids(highlightedCountries) = {"DEU", "FRA"}
    /\ highlightedCountries[1].id = "DEU"

\* C5 as claimed: after unhighlightRegion(R), isCountryHighlighted returns
\* false for every member name listed for R.
C5_RegionMembersUnhighlighted ==
    (last.op = "unhighlightRegion" /\ RegionDefined(last.name)) =>
        \A m \in Covered("highlightRegion", last.name) :
            isCountryHighlighted(highlightedCountries, m) = FALSE

\* C6 as claimed: isCountryHighlighted(name) returns true exactly when the list
\* holds an entry with the id of the country the name resolves to.
C6_HighlightedIffEntry ==
    last.op = "isCountryHighlighted" =>
        (last.result = TRUE <=>
            (Known(last.name) /\ IdOf(last.name) \in Ids(highlightedCountries)))

\* C7 as claimed: highlightCountry with a name of no country logs the
\* unknown name, leaves the list alone, does not render and does not throw.
C7_UnknownNameLogged ==
    [][ (last'.op = "highlightCountry" /\ ~ Known(last'.name)) =>
          /\ last'.logs >= 1
          /\ highlightedCountries' = highlightedCountries
          /\ last'.renders = 0
          /\ last'.threw = FALSE ]_vars

(***************************************************************************)
(* Properties of the navigation engine.                                    *)
(***************************************************************************)
Centroid(name) == countriesGeoJson[getCountryGeoJson(name)].centroid

\* The rotation zoomOnCountry(name, _, offsetX, offsetY) aims at.
TargetRotation(name, offsetX, offsetY) ==
    << 0 - Centroid(name)[1] - offsetX, 0 - Centroid(name)[2] - offsetY >>

\* The projection and the remembered zoom are what the transition s asked for.
AtTargetOf(s) ==
    /\ projection.scale = Scaled(baseProjectionScale, s.zoom.v)
    /\ projection.rotate = TargetRotation(s.name, s.offsetX, s.offsetY)
    /\ zoom = s.zoom.v
    /\ zoomedCountry = s.name

\* C8: zoomOnCountry with a name of no country changes neither the projection
\* nor the remembered zoom and country, schedules nothing, leaves the live
\* transitions as they are and does not throw.
C8_UnknownNameNoSession ==
    [][ (last'.op = "zoomOnCountry" /\ ~ Known(last'.name)) =>
          /\ projection' = projection
          /\ zoom' = zoom
          /\ zoomedCountry' = zoomedCountry
          /\ schedules' = schedules
          /\ last'.renders = 0
          /\ last'.threw = FALSE ]_vars

\* zoomOnCountry("Atlantis") was called while a transition to France was running.
C8_Witness ==
    /\ last.op = "zoomOnCountry"
    /\ last.name = "Atlantis"
    /\ zoomedCountry = "france"
    /\ Len(schedules) = 1
    /\ schedules[1].state = "RUNNING"
    /\ schedules[1].t = 1

\* The newest live transition is an undisturbed zoomOnCountry transition.
NewestUndisturbed ==
    /\ schedules # << >>
    /\ schedules[Len(schedules)].tween = "centerOnCountry"
    /\ schedules[Len(schedules)].undisturbed

\* The step has applied the last frame of an undisturbed zoomOnCountry
\* transition with a numeric zoom.
CompletedUndisturbed ==
    /\ ended.tween = "centerOnCountry"
    /\ ended.undisturbed
    /\ ended.zoom.kind = "number"

\* C9: a zoomOnCountry(C, z, ox, oy) that no later transition supersedes and no
\* resize disturbs comes to its last frame, and in the state after that frame
\* scale is baseProjectionScale * z, rotation is (-centroid.x - ox,
\* -centroid.y - oy), this.zoom is z and this.zoomedCountry is C.
C9_ZoomReachesTarget ==
    /\ [](CompletedUndisturbed => AtTargetOf(ended))
    /\ NewestUndisturbed ~>
           (\/ CompletedUndisturbed /\ AtTargetOf(ended)
            \/ schedules # << >> /\ ~ NewestUndisturbed)

\* zoomOnCountry("france", 'auto', 4, -2) has ended undisturbed at its target.
C9_Witness ==
    /\ ended.tween = "centerOnCountry"
    /\ ended.undisturbed
    /\ ended.name = "france"
    /\ ended.offsetX = 4
    /\ ended.fromRotate # ended.toRotate
    /\ projection.rotate = << 0 - 6, 0 - 44 >>
    /\ projection.scale = 585
    /\ schedules = << >>

\* C10: when zoomOnCountry(B, zB) is called while a zoomOnCountry(A, zA)
\* transition is scheduled or running, and nothing is called after it, then
\* at B's last frame no transition is left and rotation, scale, this.zoom and
\* this.zoomedCountry are B's; and once a transition is running no older
\* transition is alive to apply a frame.
C10_LatestSessionWins ==
    /\ (/\ ended.tween = "centerOnCountry"
        /\ ended.superseding # "none"
        /\ ended.undisturbed
        /\ ended.zoom.kind = "number")
       => (schedules = << >> /\ AtTargetOf(ended))
    /\ \A j \in DOMAIN schedules : schedules[j].state = "RUNNING" => j = 1

\* zoomOnCountry("france", 2) was called while the transition to Germany was
\* running, and has ended at France's target.
C10_Witness ==
    /\ ended.tween = "centerOnCountry"
    /\ ended.superseding = "RUNNING"
    /\ ended.undisturbed
    /\ ended.name = "france"
    /\ ended.fromRotate \notin {<< 0, 0 >>, << 0 - 10, 0 - 51 >>}
    /\ projection.rotate = << 0 - 2, 0 - 46 >>
    /\ zoom = 200

\* C11 as claimed: on an initialized globe with no transition scheduled or
\* running, projection scale is baseProjectionScale times this.zoom.
C11_ScaleIsBaseTimesZoom ==
    (canvasContext = "2d" /\ schedules = << >>) =>
        projection.scale = Scaled(baseProjectionScale, zoom)

\* C12 as claimed: this.zoom is never below 1; a requested factor below 1
\* is clamped to 1.
C12_ZoomAtLeastOne == zoom >= 100

\* The auto zoom the claim states for a name: the table's value for the
\* country's lowercase name, otherwise max(1, 0.65 * fitted / base).
AutoZoomOf(name) ==
    LET n == toLowerCase(name)
        computed == (countriesGeoJson[getCountryGeoJson(name)].fit * 65) \div 100
    IN IF n \in DOMAIN predefinedFillZoomLevels THEN predefinedFillZoomLevels[n]
       ELSE IF computed < 100 THEN 100 ELSE computed

\* C15 as claimed: zoomOnCountry(name, 'auto') with any casing of a country's
\* name schedules a transition to the table's zoom value when the country is in
\* the override table, and to max(1, 0.65 * fitted / base) otherwise.
C15_AutoZoomUsesTable ==
    [][ (last'.op = "zoomOnCountry" /\ last'.zoom = Auto /\ Known(last'.name)) =>
          /\ Len(schedules') = Len(schedules) + 1
          /\ schedules'[Len(schedules')].zoom = Num(AutoZoomOf(last'.name)) ]_vars

\* The defaults baked into the region shortcuts.
BakedIn ==
    [r \in regionToZoomFunction |->
        IF r = "europe"
        THEN [anchor |-> "germany", zoom |-> 280, offsetX |-> 0, offsetY |-> 0]
        ELSE [anchor |-> "australia", zoom |-> 180, offsetX |-> 10, offsetY |-> 0]]

\* The call c is a region shortcut, called by its name or through zoomOn.
IsShortcut(c) ==
    \/ c.op \in {"zoomOnEurope", "zoomOnAustraliaAndNewZealand"}
    \/ c.op = "zoomOn" /\ toLowerCase(c.name) \in regionToZoomFunction

RegionOf(c) ==
    IF c.op = "zoomOnEurope" THEN "europe"
    ELSE IF c.op = "zoomOnAustraliaAndNewZealand" THEN "australia and new zealand"
    ELSE toLowerCase(c.name)

\* C16 as claimed: a region shortcut schedules a transition to its anchor
\* country in which a zoom factor and offsets the caller supplied replace the
\* shortcut's defaults, and the defaults are used for what the caller left out.
C16_CallerArgumentsReplaceDefaults ==
    [][ IsShortcut(last') =>
          LET d == BakedIn[RegionOf(last')]
              s == schedules'[Len(schedules')]
          IN /\ Len(schedules') = Len(schedules) + 1
             /\ s.name = d.anchor
             /\ s.zoom = (IF last'.zoom = Omitted THEN Num(d.zoom) ELSE last'.zoom)
             /\ s.offsetX = (IF last'.offsetX = Omitted THEN d.offsetX
                             ELSE last'.offsetX.v)
             /\ s.offsetY = (IF last'.offsetY = Omitted THEN d.offsetY
                             ELSE last'.offsetY.v) ]_vars

\* Some zoom operation has been requested on the globe.
ZoomRequested ==
    schedules # << >> \/ zoom # 100 \/ zoomedCountry # NoCountry

\* C13 as claimed: after resetZoom(), called once some zoom operation has been
\* requested, the globe comes to rest with no transition left, scale equal to
\* baseProjectionScale and this.zoom equal to 1, unless another call is made.
C13_ResetZoomRestoresBase ==
    (last.op = "resetZoom" /\ ZoomRequested)
        ~> (\/ /\ schedules = << >>
               /\ projection.scale = Scaled(baseProjectionScale, 100)
               /\ zoom = 100
            \/ last.op \in {"zoomOnCountry", "setZoom", "resize"})

\* C14 as claimed: resize() while a zoomOnCountry(X, z) transition is in flight
\* leaves rotation at the negated centroid of X and scale at the new base scale
\* times z, the factor requested for X; it schedules nothing and renders once.
C14_Original ==
    [][ (last'.op = "resize" /\ zoomedCountry # NoCountry) =>
          \A i \in DOMAIN schedules :
              (/\ schedules[i].tween = "centerOnCountry"
               /\ schedules[i].state = "RUNNING"
               /\ schedules[i].name = zoomedCountry)
              => /\ projection'.rotate = TargetRotation(zoomedCountry, 0, 0)
                 /\ projection'.scale =
                        Scaled(baseProjectionScale', schedules[i].zoom.v)
                 /\ Len(schedules') = Len(schedules)
                 /\ last'.renders = 1 ]_vars

\* C14 amended: resize() while a country X is remembered leaves rotation at the
\* negated centroid of X and scale at the new viewport's base scale times
\* this.zoom, the remembered factor, whichever call set it last; this.zoom and
\* this.zoomedCountry are kept, no transition is scheduled or removed, and
\* render is invoked exactly once.
C14_ResizeRecentres ==
    [][ (last'.op = "resize" /\ zoomedCountry # NoCountry) =>
          /\ baseProjectionScale' =
                 FitSphere(holderBoundingBox'.width, holderBoundingBox'.height)
          /\ projection'.rotate = TargetRotation(zoomedCountry, 0, 0)
          /\ projection'.scale = Scaled(baseProjectionScale', zoom)
          /\ zoom' = zoom
          /\ zoomedCountry' = zoomedCountry
          /\ schedules' = Disturb(schedules)
          /\ last'.renders = 1
          /\ last'.threw = FALSE ]_vars

\* resize() to the wide viewport after setZoom(3) was called while the
\* transition to France (factor 2) was running.
C14_Witness ==
    /\ last.op = "resize"
    /\ zoomedCountry = "france"
    /\ holderBoundingBox = [width |-> 400, height |-> 300]
    /\ baseProjectionScale = 150
    /\ projection = [rotate |-> << 0 - 2, 0 - 46 >>, scale |-> 450]
    /\ zoom = 300
    /\ Len(schedules) = 2
    /\ schedules[1].state = "RUNNING"

(***************************************************************************)
(* Properties of the renderer and of the constructor.                      *)
(***************************************************************************)
\* The passes c are those of one render of the list hl, in the order claimed.
OrderedPasses(c, hl) ==
    LET g == IF settings.globeFillStyle # "null" THEN 1 ELSE 0
        l == IF settings.landStrokeWidth > 0 THEN 1 ELSE 0
    IN /\ Len(c) = 4 + g + l + Len(hl)
       /\ c[1].op = "clearRect"
       /\ c[2] = [op |-> "stroke", path |-> "Sphere", style |-> "globe.strokeStyle"]
       /\ g = 1 => c[3] = [op |-> "fill", path |-> "Sphere",
                           style |-> settings.globeFillStyle]
       /\ c[3 + g] = [op |-> "fill", path |-> "land", style |-> "land.fillStyle"]
       /\ l = 1 => c[4 + g] = [op |-> "stroke", path |-> "land",
                               style |-> "land.strokeStyle"]
       /\ \A k \in DOMAIN hl :
              c[3 + g + l + k] = [op |-> "fill", path |-> hl[k].id,
                                  style |-> hl[k].color]
       /\ c[Len(c)] = [op |-> "stroke", path |-> "borders",
                       style |-> "borders.strokeStyle"]

\* C17: every render that draws issues clear, sphere stroke (and fill only if
\* a globe fill is configured), land fill (and stroke only if the land stroke
\* width is positive), one fill per highlighted entry in insertion order with
\* the entry's color, and the border stroke last.
C17_DrawOrder ==
    [][ (last'.renders >= 1 /\ ~ last'.threw) =>
          OrderedPasses(canvas', highlightedCountries') ]_vars

\* A render with a globe fill and a land stroke configured and two countries
\* highlighted in different colors, France first.
C17_Witness ==
    /\ last.renders = 1
    /\ ~ last.threw
    /\ settings.globeFillStyle = "#00F"
    /\ settings.landStrokeWidth = 1
    /\ Len(canvas) = 8
    /\ canvas[6] = [op |-> "fill", path |-> "FRA", style |-> "#F00"]
    /\ canvas[7] = [op |-> "fill", path |-> "DEU", style |-> defaultHighlightColor]

\* The ids of the countries the settings ask to highlight.
ConfiguredIds ==
    {IdOf(settings.highlightedCountries[i].name) :
        i \in DOMAIN settings.highlightedCountries}
    \cup UNION {{IdOf(m) : m \in {n \in Covered("highlightRegion",
                                                settings.highlightedRegions[i].name) :
                                     Known(n)}} :
                   i \in DOMAIN settings.highlightedRegions}

\* C18 as claimed: no call throws, the constructor leaves exactly the
\* configured countries highlighted, and render is not invoked before init()
\* has set up the canvas context.
C18_NothingThrows ==
    /\ last.threw = FALSE
    /\ last.op = "new" => Ids(highlightedCountries) = ConfiguredIds
    /\ canvasContext = "undefined" => last.renders = 0

\* The transition r is the transition s, further on.
Continues(s, r) ==
    /\ r.tween = s.tween
    /\ r.name = s.name
    /\ r.zoom = s.zoom
    /\ r.offsetX = s.offsetX
    /\ r.offsetY = s.offsetY
    /\ r.undisturbed

\* C19 as claimed: whatever the other globe does, a transition of this globe
\* that none of this globe's own calls has superseded stays alive from one
\* animation frame to the next until it has applied its last frame, and it
\* ends at its own target.
C19_OtherGlobeLeavesSessions ==
    /\ [](CompletedUndisturbed => AtTargetOf(ended))
    /\ [][ last'.op \in {"frame", "otherGlobe"} =>
             \A i \in DOMAIN schedules :
               (schedules[i].tween # "otherGlobe" /\ schedules[i].undisturbed) =>
                 \/ \E j \in DOMAIN schedules' : Continues(schedules[i], schedules'[j])
                 \/ Continues(schedules[i], ended') ]_vars

\* C20 as claimed: while a transition is running, only animation frames
\* change the projection's rotation and scale.
C20_OnlyFramesMoveProjection ==
    [][ ((\E i \in DOMAIN schedules : schedules[i].state = "RUNNING")
         /\ last'.op # "frame")
        => projection' = projection ]_vars

\* The highlight fills on the canvas: the fill passes whose path is a country
\* of the dataset, in the order they were drawn.
RenderedHighlights(cv) ==
    SelectSeq(cv, LAMBDA p :
        p.op = "fill" /\ \E i \in DOMAIN countriesGeoJson : p.path = countriesGeoJson[i].id)

MutationOps == {"highlight", "unhighlight", "highlightCountry", "unhighlightCountry",
                "highlightRegion", "unhighlightRegion"}

\* C21: on an initialized globe, a highlight mutation that changes the
\* highlighted list and is asked to render has invoked render() by the time it
\* returns, and the highlight fills on the canvas are then the fills of the
\* current list, in list order; a highlightCountry / unhighlightCountry call
\* that changes nothing, or is made with render = false, invokes no render
\* and leaves the canvas as it was.
C21_RenderFollowsMutation ==
    [][ (canvasContext = "2d" /\ last'.op \in MutationOps) =>
          /\ (highlightedCountries' # highlightedCountries /\ last'.render) =>
                /\ last'.renders >= 1
                /\ ~ last'.threw
                /\ RenderedHighlights(canvas') = HighlightPasses(highlightedCountries')
          /\ (/\ last'.op \in {"highlightCountry", "unhighlightCountry"}
              /\ (highlightedCountries' = highlightedCountries \/ ~ last'.render)) =>
                /\ last'.renders = 0
                /\ canvas' = canvas ]_vars

\* A rendering highlightCountry has added a second country to the list of an
\* initialized globe, and both fills are on the canvas.
C21_Witness ==
    /\ canvasContext = "2d"
    /\ last.op = "highlightCountry"
    /\ last.render
    /\ last.renders = 1
    /\ Len(highlightedCountries) = 2
    /\ highlightedCountries[2].name = toLowerCase(last.name)
    /\ RenderedHighlights(canvas) = HighlightPasses(highlightedCountries)

\* C22: setZoom(factor) with a factor that is no number, or that equals the
\* remembered zoom factor, changes neither the projection's rotation and scale
\* nor the remembered zoom factor and zoomed country, and starts or supersedes
\* no transition; a setZoom that acts remembers the factor and starts one
\* "zoom" transition, leaving rotation and the remembered zoomed country as
\* they were, and the frames of "zoom" transitions change nothing of the
\* projection but its scale.
C22_SetZoomFrame ==
    /\ [][ last'.op = "setZoom" =>
             IF last'.zoom.kind # "number" \/ last'.zoom.v = zoom
             THEN /\ projection' = projection
                  /\ zoom' = zoom
                  /\ zoomedCountry' = zoomedCountry
                  /\ schedules' = schedules
                  /\ baseProjectionScale' = baseProjectionScale
             ELSE /\ zoom' = last'.zoom.v
                  /\ projection'.rotate = projection.rotate
                  /\ zoomedCountry' = zoomedCountry
                  /\ baseProjectionScale' = baseProjectionScale
                  /\ Len(schedules') = Len(schedules) + 1
                  /\ schedules'[Len(schedules')].tween = "zoom" ]_vars
    /\ [][ (last'.op = "frame"
            /\ \A i \in DOMAIN schedules : schedules[i].tween = "zoom") =>
             /\ projection'.rotate = projection.rotate
             /\ zoom' = zoom
             /\ zoomedCountry' = zoomedCountry ]_vars

\* setZoom has been called with the factor a zoomOnCountry transition had just
\* remembered: that transition is still the only one and still undisturbed.
C22_Witness ==
    /\ last.op = "setZoom"
    /\ last.zoom = Num(200)
    /\ zoom = 200
    /\ zoomedCountry # NoCountry
    /\ Len(schedules) = 1
    /\ schedules[1].tween = "centerOnCountry"
    /\ schedules[1].state = "RUNNING"
    /\ schedules[1].undisturbed

====
